---------------------------- MODULE Spec2Model ----------------------------
(***************************************************************************)
(* The collaboration network graph of the strix dashboard                  *)
(* (CollaborationNetworkGraph.tsx): the graph builder (the useMemo body),  *)
(* the force-directed layout and the canvas renderer (the useEffect body), *)
(* and the status line of the component.                                   *)
(*                                                                         *)
(* Strings are TLA+ strings (Len, \o and SubSeq act on them as on          *)
(* JavaScript strings).  An absent optional string is UNDEFINED; an absent *)
(* optional list or record has def = FALSE.  A JavaScript number is a      *)
(* fixed-point integer counting 1/Scale pixels; an absent number is <<>>   *)
(* and a present one <<v>>.                                                *)
(***************************************************************************)
EXTENDS Integers, Sequences, FiniteSets, TLC

VARIABLES
    agents,         \* prop: [def, v]; v = Object.values(agents) in iteration order
    collaboration,  \* prop: [def, findings, claims, work_queue], each list [def, v]
    nodes,          \* useMemo result: the node list (the effect writes x, y in place)
    links,          \* useMemo result: the link list
    statNodes,      \* the number shown after "Nodes:"
    statLinks,      \* the number shown after "Links:"
    rectWidth,      \* canvas.getBoundingClientRect().width, in pixels
    canvasW,        \* canvas.width, in pixels
    canvasH,        \* canvas.height, in pixels
    paint,          \* the drawing operations on the canvas bitmap, in order
    pc,             \* position of the component: "init", "effect", "sim", "draw", "idle"
    iteration,      \* the loop counter of the force simulation
    error,          \* TRUE once an exception has left the effect
    ran,            \* what the last effect run did: "none", "nosurface", "empty", "full"
    surface         \* "ok", or "nocanvas" (canvasRef.current is null), or "noctx"

vars == <<agents, collaboration, nodes, links, statNodes, statLinks, rectWidth,
          canvasW, canvasH, paint, pc, iteration, error, ran, surface>>

-----------------------------------------------------------------------------
(* JavaScript values *)

UNDEFINED == "<undefined>"

\* a string used as a condition (s && ..., s || ...)
Truthy(s) == s # UNDEFINED /\ s # ""

\* a || b on strings
OrElse(a, b) == IF Truthy(a) THEN a ELSE b

Min2(a, b) == IF a <= b THEN a ELSE b

Max2(a, b) == IF a >= b THEN a ELSE b

\* what stands in for the value of an expression that throws a TypeError
TypeError == "<TypeError>"

\* s.slice(0, n); reading slice of undefined throws
Slice0(s, n) == IF s = UNDEFINED THEN TypeError ELSE SubSeq(s, 1, Min2(n, Len(s)))

\* s.includes(t)
Includes(s, t) == \E i \in 0..(Len(s) - Len(t)) : SubSeq(s, i + 1, i + Len(t)) = t

Absent == [def |-> FALSE, v |-> <<>>]

Present(list) == [def |-> TRUE, v |-> list]

NoCollaboration ==
    [def |-> FALSE, findings |-> Absent, claims |-> Absent, work_queue |-> Absent]

\* collaboration?.findings and the like: the list, or absent when the record is
Opt(c, field) == IF c.def THEN c[field] ELSE Absent

-----------------------------------------------------------------------------
(* The node map (a JavaScript Map keeps the order of first insertion) *)

NoNum == <<>>

Node(id, label, type) == [id |-> id, label |-> label, type |-> type, x |-> NoNum, y |-> NoNum]

Link(source, target, type, weight) ==
    [source |-> source, target |-> target, type |-> type, weight |-> weight]

\* nodeMap.has(id)
MapHas(nodeMap, id) == \E i \in 1..Len(nodeMap) : nodeMap[i].id = id

\* a set that never looks for the key: every call adds an entry
MapSetAlwaysAppends(nodeMap, node) == Append(nodeMap, node)

\* nodeMap.set(node.id, node): overwrite in place, or append a new key
MapSet(nodeMap, node) ==
    IF MapHas(nodeMap, node.id)
    THEN [i \in 1..Len(nodeMap) |-> IF nodeMap[i].id = node.id THEN node ELSE nodeMap[i]]
    ELSE Append(nodeMap, node)


-----------------------------------------------------------------------------
(* The graph builder: the useMemo body *)

\* the node of one agent record
AgentNode(agent) == Node(agent.id, OrElse(agent.name, Slice0(agent.id, 8)), "agent")

\* "Add agent nodes": Object.values(agents).forEach(nodeMap.set)
AddAgents(nodeMap, ag) ==
    LET f[i \in 0..Len(ag.v)] ==
            IF i = 0 THEN nodeMap ELSE MapSet(f[i - 1], AgentNode(ag.v[i]))
    IN  IF ag.def THEN f[Len(ag.v)] ELSE nodeMap

FindingId(finding) == "finding-" \o finding.finding_id

\* finding.title.slice(0, 20) || finding.finding_id, without the ?.
FindingLabelUnguarded(finding) == OrElse(Slice0(finding.title, 20), finding.finding_id)

\* finding.title?.slice(0, 20) || finding.finding_id
FindingLabel(finding) ==
    OrElse(IF finding.title = UNDEFINED THEN UNDEFINED ELSE Slice0(finding.title, 20),
           finding.finding_id)

\* the name test alone, without the id substring test
MatchesNameOnly(agent, found_by) == agent.name = found_by

\* agent.name === finding.found_by || agent.id.includes(finding.found_by || '')
Matches(agent, found_by) ==
    agent.name = found_by \/ Includes(agent.id, OrElse(found_by, ""))

\* the found links of one finding: one push per agent that matches
FoundLinks(list, finding) ==
    LET f[i \in 0..Len(list)] ==
            IF i = 0 THEN <<>>
            ELSE IF Matches(list[i], finding.found_by)
                 THEN Append(f[i - 1], Link(list[i].id, FindingId(finding), "found", 1))
                 ELSE f[i - 1]
    IN  f[Len(list)]

\* the body of collaboration.findings.forEach
AddFinding(st, finding, ag) ==
    [nodeMap  |-> MapSet(st.nodeMap,
                         Node(FindingId(finding), FindingLabel(finding), "finding")),
     linkList |-> IF Truthy(finding.found_by) /\ ag.def
                  THEN st.linkList \o FoundLinks(ag.v, finding)
                  ELSE st.linkList]

\* "Add finding nodes and links to agents"
AddFindings(st, findings, ag) ==
    LET f[i \in 0..Len(findings.v)] ==
            IF i = 0 THEN st ELSE AddFinding(f[i - 1], findings.v[i], ag)
    IN  IF findings.def THEN f[Len(findings.v)] ELSE st

ClaimId(claim) == "claim-" \o claim.target \o "-" \o claim.test_type

\* the claim node is set only when the map does not hold the id yet
AddClaimNode(nodeMap, claim) ==
    IF ~MapHas(nodeMap, ClaimId(claim))
    THEN MapSet(nodeMap, Node(ClaimId(claim), Slice0(claim.target, 15) \o "...", "claim"))
    ELSE nodeMap

\* a claims link for every agent_id, whether the map holds it or not
AddClaimUnchecked(st, claim) ==
    LET nodeMap == AddClaimNode(st.nodeMap, claim)
    IN  [nodeMap  |-> nodeMap,
         linkList |-> IF Truthy(claim.agent_id)
                      THEN Append(st.linkList,
                                  Link(claim.agent_id, ClaimId(claim), "claims", 1))
                      ELSE st.linkList]

\* a claims link only for the claim that adds the claim node
AddClaimFirstOnly(st, claim) ==
    LET nodeMap == AddClaimNode(st.nodeMap, claim)
    IN  [nodeMap  |-> nodeMap,
         linkList |-> IF /\ Truthy(claim.agent_id) /\ MapHas(nodeMap, claim.agent_id)
                         /\ ~MapHas(st.nodeMap, ClaimId(claim))
                      THEN Append(st.linkList,
                                  Link(claim.agent_id, ClaimId(claim), "claims", 1))
                      ELSE st.linkList]

\* the body of collaboration.claims.forEach
AddClaim(st, claim) ==
    LET nodeMap == AddClaimNode(st.nodeMap, claim)
    IN  [nodeMap  |-> nodeMap,
         linkList |-> IF Truthy(claim.agent_id) /\ MapHas(nodeMap, claim.agent_id)
                      THEN Append(st.linkList,
                                  Link(claim.agent_id, ClaimId(claim), "claims", 1))
                      ELSE st.linkList]

\* "Add claim nodes and links"
AddClaims(st, claims) ==
    LET f[i \in 0..Len(claims.v)] ==
            IF i = 0 THEN st ELSE AddClaim(f[i - 1], claims.v[i])
    IN  IF claims.def THEN f[Len(claims.v)] ELSE st

WorkId(work) == "work-" \o work.work_id

\* work.target?.slice(0, 15) || work.work_id
WorkLabel(work) ==
    OrElse(IF work.target = UNDEFINED THEN UNDEFINED ELSE Slice0(work.target, 15),
           work.work_id)

\* "Add work queue items"
AddWork(nodeMap, work_queue) ==
    LET f[i \in 0..Len(work_queue.v)] ==
            IF i = 0 THEN nodeMap
            ELSE MapSet(f[i - 1],
                        Node(WorkId(work_queue.v[i]), WorkLabel(work_queue.v[i]), "work"))
    IN  IF work_queue.def THEN f[Len(work_queue.v)] ELSE nodeMap

\* findingsByAgent.get(key) || []: the ids of the findings whose found_by is key
FindingsByAgent(findings, key) ==
    LET f[i \in 0..Len(findings)] ==
            IF i = 0 THEN <<>>
            ELSE IF Truthy(findings[i].found_by) /\ findings[i].found_by = key
                 THEN Append(f[i - 1], findings[i].finding_id)
                 ELSE f[i - 1]
    IN  f[Len(findings)]

\* a pair link as soon as one of the two agents has findings (|| for &&)
PairLinkEither(findings, agent1, agent2) ==
    LET findings1 == FindingsByAgent(findings, OrElse(agent1.name, ""))
        findings2 == FindingsByAgent(findings, OrElse(agent2.name, ""))
    IN  IF Len(findings1) > 0 \/ Len(findings2) > 0
        THEN <<Link(agent1.id, agent2.id, "collaborates",
                    Min2(Len(findings1), Len(findings2)))>>
        ELSE <<>>

\* a pair link only between agents of different names
PairLinkOtherName(findings, agent1, agent2) ==
    LET findings1 == FindingsByAgent(findings, OrElse(agent1.name, ""))
        findings2 == FindingsByAgent(findings, OrElse(agent2.name, ""))
    IN  IF Len(findings1) > 0 /\ Len(findings2) > 0 /\ agent1.name # agent2.name
        THEN <<Link(agent1.id, agent2.id, "collaborates",
                    Min2(Len(findings1), Len(findings2)))>>
        ELSE <<>>

\* the link pushed for the pair agentList[i], agentList[j], or none
PairLink(findings, agent1, agent2) ==
    LET findings1 == FindingsByAgent(findings, OrElse(agent1.name, ""))
        findings2 == FindingsByAgent(findings, OrElse(agent2.name, ""))
    IN  IF Len(findings1) > 0 /\ Len(findings2) > 0
        THEN <<Link(agent1.id, agent2.id, "collaborates",
                    Min2(Len(findings1), Len(findings2)))>>
        ELSE <<>>

\* for (i ...) for (j = i + 1 ...): the pairs in loop order
CollaboratesLinks(findings, agentList) ==
    LET n == Len(agentList)
        inner[i \in 1..n, j \in 1..(n + 1)] ==
            IF j > n THEN <<>>
            ELSE PairLink(findings, agentList[i], agentList[j]) \o inner[i, j + 1]
        outer[i \in 1..(n + 1)] ==
            IF i > n THEN <<>> ELSE inner[i, i + 1] \o outer[i + 1]
    IN  outer[1]

\* "Link agents that share findings (collaboration)"
AddCollaborates(linkList, findings, ag) ==
    IF findings.def /\ ag.def
    THEN linkList \o CollaboratesLinks(findings.v, ag.v)
    ELSE linkList

\* the callback with the work items added before the claims
BuildWorkFirst(ag, c) ==
    LET s1 == [nodeMap |-> AddAgents(<<>>, ag), linkList |-> <<>>]
        s2 == AddFindings(s1, Opt(c, "findings"), ag)
        s3 == AddClaims([nodeMap  |-> AddWork(s2.nodeMap, Opt(c, "work_queue")),
                         linkList |-> s2.linkList],
                        Opt(c, "claims"))
    IN  [nodes |-> s3.nodeMap,
         links |-> AddCollaborates(s3.linkList, Opt(c, "findings"), ag)]

\* the useMemo callback
Build(ag, c) ==
    LET s1 == [nodeMap |-> AddAgents(<<>>, ag), linkList |-> <<>>]
        s2 == AddFindings(s1, Opt(c, "findings"), ag)
        s3 == AddClaims(s2, Opt(c, "claims"))
        nm == AddWork(s3.nodeMap, Opt(c, "work_queue"))
    IN  [nodes |-> nm,
         links |-> AddCollaborates(s3.linkList, Opt(c, "findings"), ag)]

-----------------------------------------------------------------------------
(* Numbers: fixed point, Scale units to the pixel, within 32 bits *)

Scale == 1000

\* the value cap of a force, in units: 100000 pixels, beyond any canvas
ForceCap == 100000 * Scale

Abs(a) == IF a < 0 THEN -a ELSE a

\* a / b rounded to the nearest unit, halves away from zero (b > 0)
RDiv(a, b) == IF a >= 0 THEN (a + b \div 2) \div b ELSE -((-a + b \div 2) \div b)

\* n || 0
Val0(n) == IF n = NoNum THEN 0 ELSE n[1]

\* !n: undefined or 0
Falsy(n) == n = NoNum \/ n[1] = 0

\* the integer square root, by Newton's iteration from above
RECURSIVE Newton(_, _)
Newton(n, x) ==
    LET y == (x + n \div x) \div 2
    IN  IF y >= x THEN x ELSE Newton(n, y)

ISqrt(n) == IF n = 0 THEN 0 ELSE Newton(n, Min2(n, 46340))

\* Math.sqrt(dx * dx + dy * dy), the operands scaled down to keep the squares in range
Hypot(dx, dy) ==
    LET m == Max2(Abs(dx), Abs(dy))
        k == m \div 30000 + 1
    IN  k * ISqrt((Abs(dx) \div k) * (Abs(dx) \div k) + (Abs(dy) \div k) * (Abs(dy) \div k))

\* the distance without the || 1
DistanceUnfloored(dx, dy) == Hypot(dx, dy)

\* Math.sqrt(dx * dx + dy * dy) || 1
Distance(dx, dy) == IF Hypot(dx, dy) = 0 THEN Scale ELSE Hypot(dx, dy)

\* (d / distance) * force, the quotient taken to 1/1000
Along(d, distance, force) ==
    LET unit == RDiv(d * 1000, distance)
    IN  IF force > 2000000 THEN unit * RDiv(force, 1000) ELSE RDiv(unit * force, 1000)

\* 1000 / (distance * distance), in units, capped at ForceCap
Repulsion(distance) ==
    IF distance <= 100 THEN ForceCap
    ELSE IF distance < 1000 THEN ((1000000000 \div distance) \div distance) * 1000
    ELSE ((1000000000 \div distance) * 1000) \div distance

\* distance * 0.01
Attraction(distance) == RDiv(distance, 100)

\* Math.PI in 1/10000 radian
Pi10k == 31416

\* Math.cos(a) in 1/10000, for 0 <= a <= pi/2 in 1/10000 radian: the series to a^10
CosSeries(a) ==
    LET u  == 10000
        y  == (a * a) \div u
        h5 == u - y \div 90
        h4 == u - ((y * h5) \div u) \div 56
        h3 == u - ((y * h4) \div u) \div 30
        h2 == u - ((y * h3) \div u) \div 12
    IN  u - ((y * h2) \div u) \div 2

\* Math.cos(a) in 1/10000, for 0 <= a < 2 pi
Cos(a) ==
    LET b == IF a > Pi10k THEN 2 * Pi10k - a ELSE a
    IN  IF 2 * b > Pi10k THEN -CosSeries(Pi10k - b) ELSE CosSeries(b)

\* Math.sin(a) = cos(a - pi/2)
Sin(a) == IF 2 * a >= Pi10k THEN Cos(a - Pi10k \div 2) ELSE Cos(a + (3 * Pi10k) \div 2)

-----------------------------------------------------------------------------
(* The layout: initial circle placement and the force simulation *)

Iterations == 50

\* const width = canvas.width = rect.width || 800
SurfaceWidth(rw) == IF rw = 0 THEN 800 ELSE rw

\* a height that does not grow with the nodes
SurfaceHeightFixed(n) == 400

\* const height = canvas.height = Math.max(400, nodes.length * 30 || 400)
SurfaceHeight(n) == Max2(400, IF n * 30 = 0 THEN 400 ELSE n * 30)

\* nodes.find((n) => n.id === id): the first match, or nothing
Find(ns, id) ==
    LET hits == {i \in 1..Len(ns) : ns[i].id = id}
    IN  IF hits = {} THEN <<>> ELSE <<ns[CHOOSE i \in hits : \A j \in hits : i <= j]>>

\* the node put on the circle whether it has x and y or not
PlaceAlways(node, i, n, width, height) ==
    LET centerX == (width * Scale) \div 2
        centerY == (height * Scale) \div 2
        radius  == (Min2(width, height) * Scale) \div 3
        angle   == (i * 2 * Pi10k) \div n
    IN  [node EXCEPT !.x = <<centerX + RDiv(radius * Cos(angle), 10000)>>,
                     !.y = <<centerY + RDiv(radius * Sin(angle), 10000)>>]

\* the node at index i (from 0) of n, put on the circle unless it has x and y
Place(node, i, n, width, height) ==
    LET centerX == (width * Scale) \div 2
        centerY == (height * Scale) \div 2
        radius  == (Min2(width, height) * Scale) \div 3
        angle   == (i * 2 * Pi10k) \div n
    IN  IF node.x = NoNum \/ node.y = NoNum
        THEN [node EXCEPT !.x = <<centerX + RDiv(radius * Cos(angle), 10000)>>,
                          !.y = <<centerY + RDiv(radius * Sin(angle), 10000)>>]
        ELSE node

\* "Position nodes in a circle"
PlaceAll(ns, width, height) ==
    [i \in 1..Len(ns) |-> Place(ns[i], i - 1, Len(ns), width, height)]

\* the force of one other node on node: <<fx, fy>>
RepelFrom(node, other) ==
    LET dx == Val0(node.x) - Val0(other.x)
        dy == Val0(node.y) - Val0(other.y)
        distance == Distance(dx, dy)
        force == Repulsion(distance)
    IN  IF node.id = other.id THEN <<0, 0>>
        ELSE <<Along(dx, distance, force), Along(dy, distance, force)>>

\* link.source === node.id ? link.target : link.source === node.id ? link.source : null
LinkedId(link, id) ==
    IF link.source = id THEN link.target
    ELSE IF link.source = id THEN link.source
    ELSE UNDEFINED

\* the force of one link on node: <<fx, fy>>
AttractAlong(ns, node, link) ==
    LET target == LinkedId(link, node.id)
        targetNode == Find(ns, target)
    IN  IF ~Truthy(target) THEN <<0, 0>>
        ELSE IF targetNode = <<>> THEN <<0, 0>>
        ELSE IF Falsy(targetNode[1].x) \/ Falsy(targetNode[1].y) THEN <<0, 0>>
        ELSE LET dx == Val0(targetNode[1].x) - Val0(node.x)
                 dy == Val0(targetNode[1].y) - Val0(node.y)
                 distance == Distance(dx, dy)
                 force == Attraction(distance)
             IN  <<Along(dx, distance, force), Along(dy, distance, force)>>

Add2(p, q) == <<p[1] + q[1], p[2] + q[2]>>

\* the net force on ns[k]: repulsion from the nodes, attraction along the links
NetForce(ns, ls, k) ==
    LET rep[j \in 0..Len(ns)] ==
            IF j = 0 THEN <<0, 0>> ELSE Add2(rep[j - 1], RepelFrom(ns[k], ns[j]))
        att[j \in 0..Len(ls)] ==
            IF j = 0 THEN rep[Len(ns)] ELSE Add2(att[j - 1], AttractAlong(ns, ns[k], ls[j]))
    IN  att[Len(ls)]

\* Math.min(limit - 20, Math.max(20, v)): the upper bound applied last
ClampUpperLast(v, limit) == Min2((limit - 20) * Scale, Max2(20 * Scale, v))

\* the upper bound alone, without Math.max(20, ...)
ClampUpperOnly(v, limit) == Min2((limit - 20) * Scale, v)

\* Math.max(20, Math.min(limit - 20, v)), limit in pixels, v in units
Clamp(v, limit) == Max2(20 * Scale, Min2((limit - 20) * Scale, v))

\* "Apply forces with damping" and "Keep nodes within bounds"
Moved(node, f, width, height) ==
    IF node.x # NoNum /\ node.y # NoNum
    THEN [node EXCEPT !.x = <<Clamp(node.x[1] + RDiv(f[1], 10), width)>>,
                      !.y = <<Clamp(node.y[1] + RDiv(f[2], 10), height)>>]
    ELSE node

\* the list with ns[k] moved by the net force on it
MoveNode(ns, ls, k, width, height) ==
    [ns EXCEPT ![k] = Moved(ns[k], NetForce(ns, ls, k), width, height)]

\* one iteration with every force computed from the positions at its start
OnePassFromSnapshot(ns, ls, width, height) ==
    [k \in 1..Len(ns) |-> Moved(ns[k], NetForce(ns, ls, k), width, height)]

\* one iteration of the simulation: each node in turn, written back at once
OnePass(ns, ls, width, height) ==
    LET step[k \in 0..Len(ns)] ==
            IF k = 0 THEN ns ELSE MoveNode(step[k - 1], ls, k, width, height)
    IN  step[Len(ns)]

-----------------------------------------------------------------------------
(* The renderer: the drawing operations, in order *)

Skip == [ops |-> <<>>, error |-> FALSE]

\* the background fill
Background(width, height) ==
    [kind |-> "background", style |-> "rgba(15, 23, 42, 0.9)", rect |-> <<0, 0, width, height>>]

\* the empty-state message
EmptyMessage(width, height) ==
    [kind |-> "empty", style |-> "#9CA3AF", text |-> "No collaboration data available",
     at |-> <<(width * Scale) \div 2, (height * Scale) \div 2>>]

LinkStyle(type) ==
    IF type = "found" THEN "rgba(239, 68, 68, 0.5)"
    ELSE IF type = "claims" THEN "rgba(59, 130, 246, 0.5)"
    ELSE "rgba(34, 197, 94, 0.5)"

\* a link drawn without the test for a missing node: reading x of undefined throws
DrawLinkUnchecked(ns, link, i) ==
    LET sourceNode == Find(ns, link.source)
        targetNode == Find(ns, link.target)
    IN  IF sourceNode = <<>> \/ targetNode = <<>> THEN [ops |-> <<>>, error |-> TRUE]
        ELSE IF \/ Falsy(sourceNode[1].x) \/ Falsy(sourceNode[1].y)
                \/ Falsy(targetNode[1].x) \/ Falsy(targetNode[1].y) THEN Skip
        ELSE [ops |-> << [kind |-> "link", link |-> i, style |-> LinkStyle(link.type),
                          lineWidth |-> IF link.weight = 0 THEN 1 ELSE link.weight,
                          from |-> <<sourceNode[1].x[1], sourceNode[1].y[1]>>,
                          to |-> <<targetNode[1].x[1], targetNode[1].y[1]>>] >>,
              error |-> FALSE]

\* the body of links.forEach in "Draw links", for the link at index i
DrawLink(ns, link, i) ==
    LET sourceNode == Find(ns, link.source)
        targetNode == Find(ns, link.target)
    IN  IF sourceNode = <<>> \/ targetNode = <<>> THEN Skip
        ELSE IF \/ Falsy(sourceNode[1].x) \/ Falsy(sourceNode[1].y)
                \/ Falsy(targetNode[1].x) \/ Falsy(targetNode[1].y) THEN Skip
        ELSE [ops |-> << [kind |-> "link", link |-> i, style |-> LinkStyle(link.type),
                          lineWidth |-> IF link.weight = 0 THEN 1 ELSE link.weight,
                          from |-> <<sourceNode[1].x[1], sourceNode[1].y[1]>>,
                          to |-> <<targetNode[1].x[1], targetNode[1].y[1]>>] >>,
              error |-> FALSE]

\* what one more forEach callback adds, unless an exception has ended the loop
Then(done, next) ==
    IF done.error THEN done ELSE [ops |-> done.ops \o next.ops, error |-> next.error]

\* "Draw links"
DrawLinks(ns, ls) ==
    LET f[i \in 0..Len(ls)] ==
            IF i = 0 THEN Skip ELSE Then(f[i - 1], DrawLink(ns, ls[i], i))
    IN  f[Len(ls)]

\* colors[node.type] || colors.agent
NodeColor(type) ==
    IF type = "finding" THEN [fill |-> "#EF4444", stroke |-> "#DC2626"]
    ELSE IF type = "claim" THEN [fill |-> "#3B82F6", stroke |-> "#2563EB"]
    ELSE IF type = "work" THEN [fill |-> "#F59E0B", stroke |-> "#D97706"]
    ELSE [fill |-> "#22C55E", stroke |-> "#16A34A"]

\* the body of nodes.forEach in "Draw nodes": the circle, then the label
DrawNode(node) ==
    IF Falsy(node.x) \/ Falsy(node.y) THEN <<>>
    ELSE << [kind |-> "node", node |-> node.id, fill |-> NodeColor(node.type).fill,
             stroke |-> NodeColor(node.type).stroke, at |-> <<node.x[1], node.y[1]>>],
            [kind |-> "label", node |-> node.id, text |-> node.label,
             at |-> <<node.x[1], node.y[1] + 16 * Scale>>] >>

\* "Draw nodes"
DrawNodes(ns) ==
    LET f[i \in 0..Len(ns)] == IF i = 0 THEN <<>> ELSE f[i - 1] \o DrawNode(ns[i])
    IN  f[Len(ns)]

\* "Draw legend": the box, the title and the four entries
Legend ==
    << [kind |-> "legend", item |-> "box", style |-> "rgba(15, 23, 42, 0.9)"],
       [kind |-> "legend", item |-> "Legend:", style |-> "#E5E7EB"],
       [kind |-> "legend", item |-> "Agent", style |-> "#22C55E"],
       [kind |-> "legend", item |-> "Finding", style |-> "#EF4444"],
       [kind |-> "legend", item |-> "Claim", style |-> "#3B82F6"],
       [kind |-> "legend", item |-> "Work", style |-> "#F59E0B"] >>

-----------------------------------------------------------------------------
(* The inputs *)

\* the number of records (agents, findings, claims, work items) of a builder input
MaxItems == 5

\* the number of records of an input of the whole component
MaxLayoutItems == 2

\* an empty list may also be absent in an input of at most this many records
MaxAbsentItems == 1

Agent(id, name) == [id |-> id, name |-> name]

Finding(finding_id, title, found_by) ==
    [finding_id |-> finding_id, title |-> title, found_by |-> found_by]

Claim(target, test_type, agent_id) ==
    [target |-> target, test_type |-> test_type, agent_id |-> agent_id]

Work(work_id, target) == [work_id |-> work_id, target |-> target]

\* a1 is part of the id a12; three ids are those of a finding, a claim and a work node
AgentPool ==
    { Agent("a1", "Al"), Agent("a12", "a1"), Agent("finding-f1", "Al"),
      Agent("claim-t-x", UNDEFINED), Agent("work-w1", UNDEFINED) }

FindingPool ==
    { Finding("f1", UNDEFINED, UNDEFINED), Finding("f1", UNDEFINED, "Al"),
      Finding("f1", "XSS", "a1"), Finding("f2", "SQL injection in the login form", ""),
      Finding("f2", "SQL injection in the login form", "Al"),
      Finding("f2", "", "a1") }

ClaimPool ==
    { Claim("t", "x", UNDEFINED), Claim("t", "x", "a1"), Claim("t", "y", "a1"),
      Claim("t", "x", "finding-f1"), Claim("t", "y", "work-w1") }

WorkPool == { Work("w1", UNDEFINED), Work("w1", "https://example.org/login") }

\* the records of the inputs of the whole component
LayoutAgentPool == { Agent("a1", "Al"), Agent("a12", "a1") }

LayoutFindingPool ==
    { Finding("f1", UNDEFINED, "Al"), Finding("f1", "XSS", "a1"),
      Finding("f2", "SQL injection in the login form", "") }

LayoutClaimPool == { Claim("t", "x", "a1") }

LayoutWorkPool == { Work("w1", UNDEFINED) }

\* the measured widths of the container, in pixels; 0 is "not measured"
Widths == {0, 30, 40, 100}

Surfaces == {"ok", "nocanvas", "noctx"}

\* an empty list of a small input may also be absent
Defs(n, total) == IF n = 0 /\ total <= MaxAbsentItems THEN BOOLEAN ELSE {TRUE}

\* the props: the agents mapping and the collaboration record
Input(ad, av, cdef, fd, fv, cd, cv, wd, wv) ==
    [agents |-> [def |-> ad, v |-> av],
     collaboration |->
        [def |-> cdef,
         findings   |-> [def |-> fd /\ cdef, v |-> fv],
         claims     |-> [def |-> cd /\ cdef, v |-> cv],
         work_queue |-> [def |-> wd /\ cdef, v |-> wv]]]

\* how many agents, findings, claims and work items: at most N records in all
Shapes(N) ==
    {sh \in [na : 0..N, nf : 0..N, nc : 0..N, nw : 0..N] : sh.na + sh.nf + sh.nc + sh.nw <= N}

\* the inputs of one shape
InputsOfShape(sh, PA, PF, PC, PW) ==
    LET total == sh.na + sh.nf + sh.nc + sh.nw
    IN  { Input(ad, av, cdef, fd, fv, cd, cv, wd, wv) :
            ad \in Defs(sh.na, total), av \in [1..sh.na -> PA],
            cdef \in Defs(sh.nf + sh.nc + sh.nw, total),
            fd \in Defs(sh.nf, total), fv \in [1..sh.nf -> PF],
            cd \in Defs(sh.nc, total), cv \in [1..sh.nc -> PC],
            wd \in Defs(sh.nw, total), wv \in [1..sh.nw -> PW] }

\* the inputs of the whole component
LayoutInputs ==
    UNION { InputsOfShape(sh, LayoutAgentPool, LayoutFindingPool, LayoutClaimPool,
                          LayoutWorkPool) : sh \in Shapes(MaxLayoutItems) }

-----------------------------------------------------------------------------
(* The component *)

\* the state before the first render, with the props a and c
Start(a, c) ==
    /\ agents = a
    /\ collaboration = c
    /\ nodes = <<>>
    /\ links = <<>>
    /\ statNodes = 0
    /\ statLinks = 0
    /\ canvasW = 0
    /\ canvasH = 0
    /\ paint = <<>>
    /\ pc = "init"
    /\ iteration = 0
    /\ error = FALSE
    /\ ran = "none"

\* a link total that counts the links between two nodes of the list only
StatusLineDrawable(ns, ls) ==
    [nodes |-> Len(ns),
     links |-> Cardinality({l \in 1..Len(ls) :
                   Find(ns, ls[l].source) # <<>> /\ Find(ns, ls[l].target) # <<>>})]

\* the useMemo body threw while it computed a label
Threw(ns) == \E i \in 1..Len(ns) : ns[i].label = TypeError

\* a render that throws: no status line, no effect
Crash ==
    /\ error' = TRUE
    /\ pc' = "crashed"
    /\ UNCHANGED <<nodes, links, statNodes, statLinks, rectWidth, canvasW, canvasH, paint,
                   iteration, ran, surface>>

\* <div>Nodes: {nodes.length}</div> <div>Links: {links.length}</div>
StatusLine(ns, ls) == [nodes |-> Len(ns), links |-> Len(ls)]

\* a render that hands the positions of the last layout to the nodes of the same id
RenderGraphKeepingPositions(g) ==
    IF Threw(g.nodes) THEN Crash
    ELSE
        /\ nodes' = [i \in 1..Len(g.nodes) |->
                        LET old == Find(nodes, g.nodes[i].id)
                        IN  IF old = <<>> THEN g.nodes[i]
                            ELSE [g.nodes[i] EXCEPT !.x = old[1].x, !.y = old[1].y]]
        /\ links' = g.links
        /\ statNodes' = StatusLine(g.nodes, g.links).nodes
        /\ statLinks' = StatusLine(g.nodes, g.links).links
        /\ pc' = "effect"
        /\ UNCHANGED <<rectWidth, canvasW, canvasH, paint, iteration, error, ran, surface>>

\* the rest of a render once the memo holds g: the status line, the effect scheduled
RenderGraph(g) ==
    IF Threw(g.nodes) THEN Crash
    ELSE
        /\ nodes' = g.nodes
        /\ links' = g.links
        /\ statNodes' = StatusLine(g.nodes, g.links).nodes
        /\ statLinks' = StatusLine(g.nodes, g.links).links
        /\ pc' = "effect"
        /\ UNCHANGED <<rectWidth, canvasW, canvasH, paint, iteration, error, ran, surface>>

\* one render with the props a and c
RenderWith(a, c) ==
    /\ agents' = a
    /\ collaboration' = c
    /\ RenderGraph(Build(a, c))

\* the first render
Mount ==
    /\ pc = "init"
    /\ RenderWith(agents, collaboration)

\* a render with a new data snapshot
Rerender ==
    /\ pc = "idle"
    /\ \E in \in LayoutInputs : RenderWith(in.agents, in.collaboration)

\* the container is resized: no prop and no memo changes
Resize ==
    /\ pc = "idle"
    /\ \E w \in Widths \ {rectWidth} : rectWidth' = w
    /\ UNCHANGED <<agents, collaboration, nodes, links, statNodes, statLinks, canvasW,
                   canvasH, paint, pc, iteration, error, ran, surface>>

\* the effect on a canvas that keeps what was painted before
EffectStartKeepsPaint ==
    LET width  == SurfaceWidth(rectWidth)
        height == SurfaceHeight(Len(nodes))
    IN  /\ pc = "effect"
        /\ IF surface # "ok"
           THEN /\ pc' = "idle"
                /\ ran' = "nosurface"
                /\ UNCHANGED <<nodes, canvasW, canvasH, paint, iteration>>
           ELSE /\ canvasW' = width
                /\ canvasH' = height
                /\ iteration' = 0
                /\ IF Len(nodes) = 0
                   THEN /\ paint' = paint \o <<Background(width, height),
                                           EmptyMessage(width, height)>>
                        /\ pc' = "idle"
                        /\ ran' = "empty"
                        /\ UNCHANGED nodes
                   ELSE /\ paint' = paint \o <<Background(width, height)>>
                        /\ nodes' = PlaceAll(nodes, width, height)
                        /\ pc' = "sim"
                        /\ ran' = "full"
        /\ UNCHANGED <<agents, collaboration, links, statNodes, statLinks, rectWidth,
                       error, surface>>

\* the effect with the canvas sized before the drawing context is asked for
EffectStartSizesFirst ==
    LET width  == SurfaceWidth(rectWidth)
        height == SurfaceHeight(Len(nodes))
    IN  /\ pc = "effect"
        /\ IF surface = "nocanvas"
           THEN /\ pc' = "idle"
                /\ ran' = "nosurface"
                /\ UNCHANGED <<nodes, canvasW, canvasH, paint, iteration>>
           ELSE /\ canvasW' = width
                /\ canvasH' = height
                /\ IF surface = "noctx"
                   THEN /\ pc' = "idle"
                        /\ ran' = "nosurface"
                        /\ UNCHANGED <<nodes, paint, iteration>>
                   ELSE /\ iteration' = 0
                        /\ IF Len(nodes) = 0
                           THEN /\ paint' = <<Background(width, height),
                                              EmptyMessage(width, height)>>
                                /\ pc' = "idle"
                                /\ ran' = "empty"
                                /\ UNCHANGED nodes
                           ELSE /\ paint' = <<Background(width, height)>>
                                /\ nodes' = PlaceAll(nodes, width, height)
                                /\ pc' = "sim"
                                /\ ran' = "full"
        /\ UNCHANGED <<agents, collaboration, links, statNodes, statLinks, rectWidth,
                       error, surface>>

\* the effect without the return that follows the empty-state message
EffectStartNoReturn ==
    LET width  == SurfaceWidth(rectWidth)
        height == SurfaceHeight(Len(nodes))
    IN  /\ pc = "effect"
        /\ IF surface # "ok"
           THEN /\ pc' = "idle"
                /\ ran' = "nosurface"
                /\ UNCHANGED <<nodes, canvasW, canvasH, paint, iteration>>
           ELSE /\ canvasW' = width
                /\ canvasH' = height
                /\ iteration' = 0
                /\ paint' = IF Len(nodes) = 0
                            THEN <<Background(width, height), EmptyMessage(width, height)>>
                            ELSE <<Background(width, height)>>
                /\ nodes' = PlaceAll(nodes, width, height)
                /\ pc' = "sim"
                /\ ran' = IF Len(nodes) = 0 THEN "empty" ELSE "full"
        /\ UNCHANGED <<agents, collaboration, links, statNodes, statLinks, rectWidth,
                       error, surface>>

\* the effect up to the simulation: the guards, the canvas size, the background,
\* the empty state or the initial placement
EffectStart ==
    LET width  == SurfaceWidth(rectWidth)
        height == SurfaceHeight(Len(nodes))
    IN  /\ pc = "effect"
        /\ IF surface # "ok"
           THEN /\ pc' = "idle"
                /\ ran' = "nosurface"
                /\ UNCHANGED <<nodes, canvasW, canvasH, paint, iteration>>
           ELSE /\ canvasW' = width
                /\ canvasH' = height
                /\ iteration' = 0
                /\ IF Len(nodes) = 0
                   THEN /\ paint' = <<Background(width, height), EmptyMessage(width, height)>>
                        /\ pc' = "idle"
                        /\ ran' = "empty"
                        /\ UNCHANGED nodes
                   ELSE /\ paint' = <<Background(width, height)>>
                        /\ nodes' = PlaceAll(nodes, width, height)
                        /\ pc' = "sim"
                        /\ ran' = "full"
        /\ UNCHANGED <<agents, collaboration, links, statNodes, statLinks, rectWidth,
                       error, surface>>

\* one iteration of the simulation loop
Pass ==
    /\ pc = "sim"
    /\ iteration < Iterations
    /\ nodes' = OnePass(nodes, links, canvasW, canvasH)
    /\ iteration' = iteration + 1
    /\ UNCHANGED <<agents, collaboration, links, statNodes, statLinks, rectWidth, canvasW,
                   canvasH, paint, pc, error, ran, surface>>

\* the rest of the effect, entered as soon as a pass would move no node
DrawWhenSettled ==
    LET drawn == DrawLinks(nodes, links)
    IN  /\ pc = "sim"
        /\ iteration = Iterations \/ OnePass(nodes, links, canvasW, canvasH) = nodes
        /\ paint' = IF drawn.error THEN paint \o drawn.ops
                    ELSE paint \o drawn.ops \o DrawNodes(nodes) \o Legend
        /\ error' = drawn.error
        /\ pc' = "idle"
        /\ UNCHANGED <<agents, collaboration, nodes, links, statNodes, statLinks, rectWidth,
                       canvasW, canvasH, iteration, ran, surface>>

\* the rest of the effect with the nodes drawn before the links
DrawNodesFirst ==
    LET drawn == DrawLinks(nodes, links)
    IN  /\ pc = "sim"
        /\ iteration = Iterations
        /\ paint' = IF drawn.error THEN paint \o drawn.ops
                    ELSE paint \o DrawNodes(nodes) \o drawn.ops \o Legend
        /\ error' = drawn.error
        /\ pc' = "idle"
        /\ UNCHANGED <<agents, collaboration, nodes, links, statNodes, statLinks, rectWidth,
                       canvasW, canvasH, iteration, ran, surface>>

\* the rest of the effect: the links, the nodes, the legend
Draw ==
    LET drawn == DrawLinks(nodes, links)
    IN  /\ pc = "sim"
        /\ iteration = Iterations
        /\ paint' = IF drawn.error THEN paint \o drawn.ops
                    ELSE paint \o drawn.ops \o DrawNodes(nodes) \o Legend
        /\ error' = drawn.error
        /\ pc' = "idle"
        /\ UNCHANGED <<agents, collaboration, nodes, links, statNodes, statLinks, rectWidth,
                       canvasW, canvasH, iteration, ran, surface>>

Effect == EffectStart \/ Pass \/ Draw

Init ==
    /\ rectWidth \in Widths
    /\ surface \in Surfaces
    /\ \E in \in LayoutInputs : Start(in.agents, in.collaboration)

Next == Mount \/ Rerender \/ Resize \/ EffectStart \/ Pass \/ Draw

\* the component: renders, resizes and effect runs
Spec == Init /\ [][Next]_vars

InitBuild ==
    /\ rectWidth = 0
    /\ surface = "ok"
    /\ \E sh \in Shapes(MaxItems) :
       \E in \in InputsOfShape(sh, AgentPool, FindingPool, ClaimPool, WorkPool) :
          Start(in.agents, in.collaboration)

\* the builder alone, on every input
SpecBuild == InitBuild /\ [][Mount]_vars

\* links that name an id no node has: as source, as target, as both
Dangling(ns) ==
    { Link("ghost", "ghost", "found", 1) }
    \cup { Link(ns[i].id, "ghost", "claims", 1) : i \in 1..Len(ns) }
    \cup { Link("ghost", ns[i].id, "collaborates", 2) : i \in 1..Len(ns) }

\* a first render whose memo holds, before the built links, one link of Dangling
MountDangling ==
    LET g == Build(agents, collaboration)
    IN  /\ pc = "init"
        /\ \E link \in Dangling(g.nodes) :
              RenderGraph([nodes |-> g.nodes, links |-> <<link>> \o g.links])
        /\ UNCHANGED <<agents, collaboration>>

InitRender ==
    /\ rectWidth \in Widths
    /\ surface = "ok"
    /\ \E in \in LayoutInputs : Start(in.agents, in.collaboration)

NextRender == MountDangling \/ EffectStart \/ Pass \/ Draw

\* the effect on a link list that holds a dangling link
SpecRender == InitRender /\ [][NextRender]_vars

\* a list that is absent, empty, or holds one record of the pool
OptionalLists(pool) == {Absent, Present(<<>>)} \cup {Present(<<r>>) : r \in pool}

\* the props with each list, and each optional field of its record, absent or present
OptionalInputs ==
    { [agents |-> a, collaboration |-> c] :
        a \in OptionalLists({Agent("a1", name) : name \in {UNDEFINED, "Al"}}),
        c \in {NoCollaboration} \cup
              { [def |-> TRUE, findings |-> f, claims |-> cl, work_queue |-> w] :
                  f \in OptionalLists({Finding("f1", title, found_by) :
                          title \in {UNDEFINED, "XSS"}, found_by \in {UNDEFINED, "Al"}}),
                  cl \in OptionalLists({Claim("t", "x", agent_id) :
                          agent_id \in {UNDEFINED, "a1"}}),
                  w \in OptionalLists({Work("w1", target) :
                          target \in {UNDEFINED, "https://example.org/login"}}) } }

InitOptional ==
    /\ rectWidth \in Widths
    /\ surface \in Surfaces
    /\ \E in \in OptionalInputs : Start(in.agents, in.collaboration)

NextOnce == Mount \/ EffectStart \/ Pass \/ Draw

\* one mount of the component on props with absent parts
SpecOptional == InitOptional /\ [][NextOnce]_vars

\* the number of agents of the largest graph of SpecSize
MaxAgents == 15

Digits == <<"0", "1", "2", "3", "4", "5", "6", "7", "8", "9">>

\* the id of the i-th of many agents: n01, n02, ...
AgentNumber(i) == "n" \o Digits[(i \div 10) + 1] \o Digits[(i % 10) + 1]

\* an agents mapping of n agents without names
ManyAgents(n) == Present([i \in 1..n |-> Agent(AgentNumber(i), UNDEFINED)])

InitSize ==
    /\ rectWidth \in Widths
    /\ surface = "ok"
    /\ \E n \in 0..MaxAgents : Start(ManyAgents(n), NoCollaboration)

\* one mount of the component on graphs of up to MaxAgents nodes
SpecSize == InitSize /\ [][NextOnce]_vars

-----------------------------------------------------------------------------
(* What the claims speak of *)

\* the list behind an optional list: empty when absent
Items(list) == IF list.def THEN list.v ELSE <<>>

AgentList == Items(agents)

FindingList == Items(Opt(collaboration, "findings"))

ClaimList == Items(Opt(collaboration, "claims"))

WorkList == Items(Opt(collaboration, "work_queue"))

\* every id some rule of the builder inserts a node under
InsertedIds ==
    {AgentList[i].id : i \in 1..Len(AgentList)}
    \cup {"finding-" \o FindingList[i].finding_id : i \in 1..Len(FindingList)}
    \cup {"claim-" \o ClaimList[i].target \o "-" \o ClaimList[i].test_type :
            i \in 1..Len(ClaimList)}
    \cup {"work-" \o WorkList[i].work_id : i \in 1..Len(WorkList)}

\* the memo holds the graph of the current props
Built == pc # "init"

\* the positions at which the link list holds a link of the given type
LinksOfType(type) == {i \in 1..Len(links) : links[i].type = type}

-----------------------------------------------------------------------------
(* C1 *)

\* C1: in every built graph no two nodes of the node list have the same id, and the
\* length of the node list is the number of distinct ids inserted, whatever the
\* input: the same agent id listed twice, or an agent id equal to a finding-, claim-
\* or work- id, included.
C1_NodeIdsUnique ==
    Built =>
        /\ \A i, j \in 1..Len(nodes) : nodes[i].id = nodes[j].id => i = j
        /\ Len(nodes) = Cardinality(InsertedIds)
        /\ {nodes[i].id : i \in 1..Len(nodes)} = InsertedIds

\* an agent id is listed twice, another agent id is also the id of a finding node,
\* and the graph is built
C1_Witness ==
    /\ Built
    /\ \E i, j \in 1..Len(AgentList) : i # j /\ AgentList[i].id = AgentList[j].id
    /\ \E i \in 1..Len(AgentList), j \in 1..Len(FindingList) :
          AgentList[i].id = "finding-" \o FindingList[j].finding_id
    /\ Len(nodes) < Len(AgentList) + Len(FindingList) + Len(ClaimList) + Len(WorkList)

-----------------------------------------------------------------------------
(* C2 *)

\* the simulation has finished a pass, or the whole effect, on a non-empty graph
Simulated == (pc = "sim" /\ iteration >= 1) \/ (pc = "idle" /\ ran = "full")

\* v lies within the margin of a dimension of limit pixels
InMargin(v, limit) == v # NoNum /\ 20 * Scale <= v[1] /\ v[1] <= (limit - 20) * Scale

\* C2: on a surface at least 40 wide and 40 high, every node has
\* 20 <= x <= width - 20 and 20 <= y <= height - 20 at the end of each pass of the
\* simulation and when the layout has finished.
C2_WithinBounds ==
    (Simulated /\ canvasW >= 40 /\ canvasH >= 40) =>
        \A i \in 1..Len(nodes) :
            InMargin(nodes[i].x, canvasW) /\ InMargin(nodes[i].y, canvasH)

\* a finished layout, 100 wide, with one node held at x = 20 and one at x = 80
C2_Witness ==
    /\ pc = "idle" /\ ran = "full" /\ canvasW = 100
    /\ \E i, j \in 1..Len(nodes) :
          nodes[i].x = <<20 * Scale>> /\ nodes[j].x = <<(canvasW - 20) * Scale>>

-----------------------------------------------------------------------------
(* C3 *)

\* the nodes of type claim under the id of the claim
ClaimNodesOf(claim) ==
    {i \in 1..Len(nodes) :
        /\ nodes[i].type = "claim"
        /\ nodes[i].id = "claim-" \o claim.target \o "-" \o claim.test_type}

\* C3: the claims that share one (target, test_type) pair have exactly one claim
\* node, and two claims with the same target and different test_type have two
\* distinct claim nodes.
C3_ClaimDedup ==
    Built =>
        /\ \A i \in 1..Len(ClaimList) : Cardinality(ClaimNodesOf(ClaimList[i])) = 1
        /\ \A i, j \in 1..Len(ClaimList) :
              (/\ ClaimList[i].target = ClaimList[j].target
               /\ ClaimList[i].test_type # ClaimList[j].test_type)
              => ClaimNodesOf(ClaimList[i]) \cap ClaimNodesOf(ClaimList[j]) = {}

-----------------------------------------------------------------------------
(* C4 *)

\* what C4 calls a matching agent of a finding
C4_Match(agent, finding) ==
    /\ finding.found_by # UNDEFINED
    /\ finding.found_by # ""
    /\ \/ agent.name = finding.found_by
       \/ \E k \in 0..(Len(agent.id) - Len(finding.found_by)) :
             SubSeq(agent.id, k + 1, k + Len(finding.found_by)) = finding.found_by

\* the (agent entry, finding entry) pairs that match, by source id and target id
C4_Pairs(s, t) ==
    {p \in (1..Len(AgentList)) \X (1..Len(FindingList)) :
        /\ AgentList[p[1]].id = s
        /\ "finding-" \o FindingList[p[2]].finding_id = t
        /\ C4_Match(AgentList[p[1]], FindingList[p[2]])}

\* the found links from s to t
C4_Links(s, t) ==
    {l \in LinksOfType("found") : links[l].source = s /\ links[l].target = t}

\* C4 as stated: for every finding with a non-empty found_by and every agent that
\* matches it (by name or by id substring), the link list holds exactly one found
\* link of weight 1 from the agent to finding-<finding_id>; and every found link
\* is the link of such an agent and finding.
C4_FoundLinksExactlyOne ==
    Built =>
        /\ \A i \in 1..Len(AgentList), j \in 1..Len(FindingList) :
              C4_Match(AgentList[i], FindingList[j]) =>
                  Cardinality(C4_Links(AgentList[i].id,
                                       "finding-" \o FindingList[j].finding_id)) = 1
        /\ \A l \in LinksOfType("found") :
              /\ links[l].weight = 1
              /\ C4_Pairs(links[l].source, links[l].target) # {}

\* C4 amended: every entry of the agents mapping that matches an entry of the
\* findings list (non-empty found_by equal to the name, or part of the id)
\* contributes exactly one found link of weight 1, also when both tests match; so
\* the found links from s to t are as many as the matching (agent entry, finding
\* entry) pairs with these ids (one when ids are not repeated), and there is no
\* other found link.
C4_FoundLinksPerEntry ==
    Built =>
        /\ \A i \in 1..Len(AgentList), j \in 1..Len(FindingList) :
              LET s == AgentList[i].id
                  t == "finding-" \o FindingList[j].finding_id
              IN  Cardinality(C4_Links(s, t)) = Cardinality(C4_Pairs(s, t))
        /\ \A l \in LinksOfType("found") :
              /\ links[l].weight = 1
              /\ C4_Pairs(links[l].source, links[l].target) # {}

\* an agent matched by name and by id at once has its single found link, next to
\* an agent matched by the id alone
C4_Witness ==
    /\ Built
    /\ \E i, k \in 1..Len(AgentList), j \in 1..Len(FindingList) :
          /\ AgentList[i].name = FindingList[j].found_by
          /\ AgentList[i].id = "a12" /\ FindingList[j].found_by = "a1"
          /\ AgentList[k].id = "a1" /\ AgentList[k].name # "a1"
          /\ Cardinality(C4_Links("a12", "finding-" \o FindingList[j].finding_id)) = 1
          /\ Cardinality(C4_Links("a1", "finding-" \o FindingList[j].finding_id)) = 1

-----------------------------------------------------------------------------
(* C5, C6 *)

\* the findings attributed to the agent: those whose found_by is its name
C5_Count(agent) ==
    Cardinality({j \in 1..Len(FindingList) :
        /\ FindingList[j].found_by # UNDEFINED
        /\ FindingList[j].found_by # ""
        /\ FindingList[j].found_by = agent.name})

\* the collaborates links between the ids s and t, in either direction
C5_Between(s, t) ==
    {l \in LinksOfType("collaborates") :
        \/ links[l].source = s /\ links[l].target = t
        \/ links[l].source = t /\ links[l].target = s}

\* C5: for every two distinct agents that both have at least one attributed
\* finding, the link list holds exactly one collaborates link between the two agent
\* nodes, and its weight is the smaller of the two counts of attributed findings.
C5_OneCollaboratesLink ==
    Built =>
        \A i, j \in 1..Len(AgentList) :
            (/\ AgentList[i].id # AgentList[j].id
             /\ C5_Count(AgentList[i]) > 0
             /\ C5_Count(AgentList[j]) > 0)
            => /\ Cardinality(C5_Between(AgentList[i].id, AgentList[j].id)) = 1
               /\ \A l \in C5_Between(AgentList[i].id, AgentList[j].id) :
                     links[l].weight = Min2(C5_Count(AgentList[i]), C5_Count(AgentList[j]))

\* the ids that are the source of a found link
FoundSources == {links[l].source : l \in LinksOfType("found")}

\* C6: every id that is the source or the target of a collaborates link is the
\* source of a found link of the same build: an agent without attributed findings
\* is in no collaborates link.
C6_CollaboratorsHaveFindings ==
    Built =>
        \A l \in LinksOfType("collaborates") :
            links[l].source \in FoundSources /\ links[l].target \in FoundSources

\* two agents are joined by a collaborates link, and a third agent, without any
\* found link, is in none
C6_Witness ==
    /\ Built
    /\ LinksOfType("collaborates") # {}
    /\ \E i \in 1..Len(AgentList) :
          /\ AgentList[i].id \notin FoundSources
          /\ \A l \in LinksOfType("collaborates") :
                links[l].source # AgentList[i].id /\ links[l].target # AgentList[i].id

-----------------------------------------------------------------------------
(* C7 *)

\* one run of the pipeline from nothing but the props and the surface width
C7_Run(a, c, width) ==
    LET g == Build(a, c)
        height == SurfaceHeight(Len(g.nodes))
        laid[k \in 0..Iterations] ==
            IF k = 0 THEN PlaceAll(g.nodes, width, height)
            ELSE LET before == laid[k - 1]
                 IN  IF Len(before) = Len(g.nodes)
                     THEN OnePass(before, g.links, width, height)
                     ELSE before
    IN  [nodes |-> IF Len(g.nodes) = 0 THEN g.nodes ELSE laid[Iterations],
         links |-> g.links,
         height |-> height]

\* C7: whenever the effect has finished, the node list (ids, labels, types, order
\* and final positions) and the link list are those of one run of build and layout
\* that starts from nothing but the current data and the current surface size;
\* so two runs on the same data and size end alike, whatever ran before them.
C7_Deterministic ==
    (pc = "idle" /\ ran \in {"full", "empty"}) =>
        LET run == C7_Run(agents, collaboration, canvasW)
        IN  /\ nodes = run.nodes
            /\ links = run.links
            /\ canvasH = run.height

\* a finished layout of two nodes and a link, on a surface that has been resized
\* since
C7_Witness ==
    /\ pc = "idle" /\ ran = "full"
    /\ Len(nodes) >= 2 /\ Len(links) >= 1
    /\ SurfaceWidth(rectWidth) # canvasW
    /\ \A i \in 1..Len(nodes) : nodes[i].x # NoNum /\ nodes[i].y # NoNum

-----------------------------------------------------------------------------
(* C8 *)

\* C8: a graph without nodes never enters the simulation and gets no position;
\* when its effect has finished on a usable surface, the paint is the background
\* and the empty-state message and nothing else, and no error was raised; and with
\* agents = {} and collaboration undefined both reported totals are 0.
C8_EmptyGraph ==
    /\ pc = "sim" => Len(nodes) > 0
    /\ (pc = "idle" /\ surface = "ok" /\ Len(nodes) = 0) =>
          /\ Len(paint) = 2
          /\ paint[1].kind = "background"
          /\ paint[2].kind = "empty"
          /\ paint[2].text = "No collaboration data available"
          /\ iteration = 0
          /\ ~error
    /\ (Built /\ AgentList = <<>> /\ ~collaboration.def) =>
          /\ nodes = <<>> /\ links = <<>>
          /\ statNodes = 0 /\ statLinks = 0

\* the effect has finished for agents = {} and an undefined collaboration
C8_Witness ==
    /\ pc = "idle" /\ surface = "ok"
    /\ agents = Present(<<>>) /\ ~collaboration.def
    /\ ran = "empty" /\ statNodes = 0 /\ statLinks = 0
    /\ Len(paint) = 2 /\ paint[2].kind = "empty"

-----------------------------------------------------------------------------
(* C9, C10 *)

\* the links whose source or target is no node of the list
DanglingLinks ==
    {l \in 1..Len(links) :
        \/ \A i \in 1..Len(nodes) : nodes[i].id # links[l].source
        \/ \A i \in 1..Len(nodes) : nodes[i].id # links[l].target}

\* the strokes painted for link l
Strokes(l) == {k \in 1..Len(paint) : paint[k].kind = "link" /\ paint[k].link = l}

\* the paint operations of one kind
Painted(kind) == {k \in 1..Len(paint) : paint[k].kind = kind}

\* C9: when the effect has finished on a link list that holds a link whose
\* source or target is not a node, no stroke was drawn for that link, one stroke
\* was drawn for every other link, every node and the legend were drawn, and no
\* error was raised.
C9_DanglingTolerated ==
    (pc = "idle" /\ ran = "full" /\ DanglingLinks # {}) =>
        /\ ~error
        /\ \A l \in DanglingLinks : Strokes(l) = {}
        /\ \A l \in (1..Len(links)) \ DanglingLinks : Cardinality(Strokes(l)) = 1
        /\ \A i \in 1..Len(nodes) :
              \E k \in Painted("node") : paint[k].node = nodes[i].id
        /\ Cardinality(Painted("legend")) = 6

\* a finished paint of a list of a dangling link and a link between two nodes
C9_Witness ==
    /\ pc = "idle" /\ ran = "full"
    /\ Cardinality(DanglingLinks) = 1
    /\ Len(links) >= 2
    /\ Cardinality(Painted("link")) = Len(links) - 1

\* C10: the reported node total is the length of the built node list and the
\* reported link total is the length of the built link list, skipped links
\* counted; so the link strokes of a paint are at most the reported link total.
C10_ReportedTotals ==
    Built =>
        /\ statNodes = Len(nodes)
        /\ statLinks = Len(links)
        /\ Cardinality(Painted("link")) <= statLinks

\* a finished paint with fewer strokes than the reported link total
C10_Witness ==
    /\ pc = "idle" /\ ran = "full"
    /\ statLinks = Len(links) /\ statLinks >= 2
    /\ Cardinality(Painted("link")) = statLinks - 1

-----------------------------------------------------------------------------
(* C11 *)

\* C11: a run of the effect that finds no canvas element, or no 2D context, is
\* over in one step that leaves every node (its position included), the surface
\* width and height and the paint as they were, and raises no error.
C11_MissingSurface ==
    [][(pc = "effect" /\ surface # "ok") =>
          /\ pc' = "idle"
          /\ nodes' = nodes
          /\ canvasW' = canvasW /\ canvasH' = canvasH
          /\ paint' = paint
          /\ ~error']_vars

\* the effect has returned for two nodes and a canvas without a 2D context
C11_Witness ==
    /\ pc = "idle" /\ surface = "noctx" /\ ran = "nosurface"
    /\ Len(nodes) >= 2
    /\ \A i \in 1..Len(nodes) : nodes[i].x = NoNum /\ nodes[i].y = NoNum
    /\ paint = <<>> /\ canvasW = 0 /\ canvasH = 0 /\ ~error

-----------------------------------------------------------------------------
(* C12 *)

\* C12: with the agents mapping, the collaboration record, each of its lists and
\* each optional field (name, title, found_by, agent_id, work target) absent or
\* present, no step of build, layout and render raises an exception: the render
\* never crashes, no label is the result of a failed read, and the simulation stays
\* within its 50 passes.
C12_NeverThrows ==
    /\ ~error
    /\ pc # "crashed"
    /\ \A i \in 1..Len(nodes) : nodes[i].label # TypeError
    /\ pc \in {"init", "effect", "sim", "idle"}
    /\ pc = "sim" => iteration \in 0..Iterations

\* a full run that has finished without the agents mapping and the claims list,
\* for a finding without title and a work item without target
C12_Witness ==
    /\ pc = "idle" /\ ran = "full" /\ ~error
    /\ ~agents.def /\ collaboration.def /\ ~collaboration.claims.def
    /\ \E i \in 1..Len(FindingList) :
          FindingList[i].title = UNDEFINED /\ FindingList[i].found_by = "Al"
    /\ \E i \in 1..Len(WorkList) : WorkList[i].target = UNDEFINED
    /\ Len(nodes) = 2
    /\ Cardinality(Painted("legend")) = 6

-----------------------------------------------------------------------------
(* C13, C14 *)

\* C13: whenever the pipeline is idle on a usable surface, the layout and the
\* paint are those of a full run on the current data and on the current measured
\* width of the container: a change of the data and a resize of the container are
\* both followed by a full run before the pipeline is idle again.
C13_RelayoutTriggers ==
    (pc = "idle" /\ surface = "ok") =>
        LET run == C7_Run(agents, collaboration, SurfaceWidth(rectWidth))
        IN  /\ canvasW = SurfaceWidth(rectWidth)
            /\ nodes = run.nodes
            /\ links = run.links

\* the scene of the nodes ns and the links ls on a surface of w by h
C14_Scene(ns, ls, w, h) ==
    IF Len(ns) = 0 THEN <<Background(w, h), EmptyMessage(w, h)>>
    ELSE <<Background(w, h)>> \o DrawLinks(ns, ls).ops \o DrawNodes(ns) \o Legend

\* C14: once the pipeline is idle, after any sequence of snapshot changes, the
\* reported totals are those of a build of the current snapshot, the node ids and
\* the links are those of that build, and the paint is one background over the
\* whole surface followed by the scene of the current nodes and links alone.
C14_LastWriteWins ==
    pc = "idle" =>
        LET g == Build(agents, collaboration)
        IN  /\ statNodes = Len(g.nodes)
            /\ statLinks = Len(g.links)
            /\ links = g.links
            /\ [i \in 1..Len(nodes) |-> nodes[i].id] = [i \in 1..Len(g.nodes) |-> g.nodes[i].id]
            /\ surface = "ok" =>
                  /\ paint = C14_Scene(nodes, links, canvasW, canvasH)
                  /\ Painted("background") = {1}
                  /\ paint[1].rect = <<0, 0, canvasW, canvasH>>

\* a new snapshot with fewer nodes has been rendered over the finished paint of
\* an earlier one, and its effect is about to run
C14_Witness ==
    /\ pc = "effect" /\ surface = "ok" /\ ran = "full"
    /\ Cardinality(Painted("node")) > Len(nodes)
    /\ statNodes = Len(nodes)

-----------------------------------------------------------------------------
(* C15, C16 *)

\* C15: the source and the target of every link of a built list are ids of
\* nodes of the built node list; a built list of links comes with nodes.
C15_NoDanglingLinks ==
    Built =>
        /\ DanglingLinks = {}
        /\ Len(links) > 0 => Len(nodes) > 0

\* a build with a found, a claims and a collaborates link
C15_Witness ==
    /\ Built
    /\ LinksOfType("found") # {}
    /\ LinksOfType("claims") # {}
    /\ LinksOfType("collaborates") # {}

\* the place of a kind of drawing operation in the order of a paint
PaintRank(kind) ==
    IF kind = "background" THEN 0
    ELSE IF kind = "link" THEN 1
    ELSE IF kind \in {"node", "label"} THEN 2
    ELSE 3

\* C16: the finished paint of a graph with nodes starts with the background fill,
\* has every link stroke before every node circle and label, and the legend
\* after all of them: background, links, nodes, legend.
C16_PaintOrder ==
    (pc = "idle" /\ ran = "full") =>
        /\ paint[1].kind = "background"
        /\ Painted("background") = {1}
        /\ Painted("legend") # {}
        /\ \A i, j \in 1..Len(paint) :
              i < j => PaintRank(paint[i].kind) <= PaintRank(paint[j].kind)
        /\ \A i \in 1..Len(paint) : paint[i].kind # "empty"

\* a finished paint with a link stroke and two nodes
C16_Witness ==
    /\ pc = "idle" /\ ran = "full"
    /\ Painted("link") # {}
    /\ Cardinality(Painted("node")) >= 2
    /\ paint[Len(paint)].kind = "legend"

-----------------------------------------------------------------------------
(* C17 *)

\* C17: every run of the effect on a usable surface sets the surface height to
\* max(400, 30 * nodeCount), which is 400 for up to 13 nodes and 30 * nodeCount
\* from 14 nodes on, and the surface width to the measured width of the container,
\* or to 800 when the measured width is 0.
C17_SurfaceSizing ==
    (pc \in {"sim", "idle"} /\ ran \in {"full", "empty"}) =>
        /\ canvasH = IF Len(nodes) <= 13 THEN 400 ELSE 30 * Len(nodes)
        /\ canvasH >= 400 /\ canvasH >= 30 * Len(nodes)
        /\ canvasW = IF rectWidth = 0 THEN 800 ELSE rectWidth

\* a finished run for 14 nodes in a container that was not measured
C17_Witness ==
    /\ pc = "idle" /\ ran = "full"
    /\ Len(nodes) = 14 /\ canvasH = 420
    /\ rectWidth = 0 /\ canvasW = 800

-----------------------------------------------------------------------------
(* C18 *)

\* a force of magnitude distance * 0.01 on node, directed toward other
C18_Pull(node, other) ==
    LET dx == Val0(other.x) - Val0(node.x)
        dy == Val0(other.y) - Val0(node.y)
        distance == Distance(dx, dy)
    IN  <<Along(dx, distance, RDiv(distance, 100)), Along(dy, distance, RDiv(distance, 100))>>

\* C18: during the simulation, for every link between two different nodes, the
\* force the link puts on the node at its source and the force it puts on the node
\* at its target are both the attraction of magnitude distance * 0.01 toward the
\* node at the other end.
C18_AttractionBothEnds ==
    pc = "sim" =>
        \A l \in 1..Len(links), k \in 1..Len(nodes) :
            LET link == links[l]
                otherId == IF link.source = nodes[k].id THEN link.target ELSE link.source
                other == Find(nodes, otherId)
            IN  (/\ nodes[k].id \in {link.source, link.target}
                 /\ link.source # link.target
                 /\ other # <<>>)
                => AttractAlong(nodes, nodes[k], link) = C18_Pull(nodes[k], other[1])

-----------------------------------------------------------------------------
(* C19 *)

\* the nodes handed to the node map by the four passes, in construction order
C19_Insertions ==
    [i \in 1..Len(AgentList) |-> AgentNode(AgentList[i])]
    \o [i \in 1..Len(FindingList) |->
           Node(FindingId(FindingList[i]), FindingLabel(FindingList[i]), "finding")]
    \o [i \in 1..Len(ClaimList) |->
           Node(ClaimId(ClaimList[i]), Slice0(ClaimList[i].target, 15) \o "...", "claim")]
    \o [i \in 1..Len(WorkList) |->
           Node(WorkId(WorkList[i]), WorkLabel(WorkList[i]), "work")]

\* C19: every node of a built graph carries the type and the label of the last
\* insertion made under its id, in the construction order agents, findings,
\* claims, work items.
C19_UpsertOverwrite ==
    Built =>
        \A i \in 1..Len(nodes) :
            \A k \in 1..Len(C19_Insertions) :
                (/\ C19_Insertions[k].id = nodes[i].id
                 /\ \A m \in (k + 1)..Len(C19_Insertions) :
                       C19_Insertions[m].id # nodes[i].id)
                => /\ nodes[i].type = C19_Insertions[k].type
                   /\ nodes[i].label = C19_Insertions[k].label

-----------------------------------------------------------------------------
(* C20 *)

\* the ids in the node map when the k-th claim looks for its agent_id
C20_IdsAt(k) ==
    {AgentList[i].id : i \in 1..Len(AgentList)}
    \cup {"finding-" \o FindingList[i].finding_id : i \in 1..Len(FindingList)}
    \cup {"claim-" \o ClaimList[i].target \o "-" \o ClaimList[i].test_type : i \in 1..k}

\* the claims links that C20 expects, in the order of the claims list
C20_Expected ==
    LET f[k \in 0..Len(ClaimList)] ==
            IF k = 0 THEN <<>>
            ELSE IF /\ ClaimList[k].agent_id # UNDEFINED
                    /\ ClaimList[k].agent_id # ""
                    /\ ClaimList[k].agent_id \in C20_IdsAt(k)
                 THEN Append(f[k - 1],
                        [source |-> ClaimList[k].agent_id,
                         target |-> "claim-" \o ClaimList[k].target \o "-"
                                        \o ClaimList[k].test_type,
                         type |-> "claims", weight |-> 1])
                 ELSE f[k - 1]
    IN  f[Len(ClaimList)]

\* the links of a type, in the order of the link list
C20_LinksInOrder(type) ==
    LET f[l \in 0..Len(links)] ==
            IF l = 0 THEN <<>>
            ELSE IF links[l].type = type THEN Append(f[l - 1], links[l]) ELSE f[l - 1]
    IN  f[Len(links)]

\* C20: the claims links of a build are, in order, one link of weight 1 from
\* agent_id to the claim's node for each entry of the claims list, duplicates of
\* earlier claims included, whose agent_id is the id of a node that exists at that
\* point; an entry without agent_id, or with one that matches no node, adds none.
C20_ClaimsLinks ==
    Built =>
        /\ C20_LinksInOrder("claims") = C20_Expected
        /\ \A l \in LinksOfType("claims") :
              \E i \in 1..Len(nodes) : nodes[i].id = links[l].target

\* a claim and its duplicate have each added a link from the agent a1, and a
\* third claim, whose agent_id is no node yet, has added none
C20_Witness ==
    /\ Built
    /\ \E i, j, k \in 1..Len(ClaimList) :
          /\ i < j
          /\ ClaimList[i] = ClaimList[j]
          /\ ClaimList[i].agent_id = "a1"
          /\ ClaimList[k].agent_id \in {UNDEFINED, "work-w1"}
    /\ \E i \in 1..Len(AgentList) : AgentList[i].id = "a1"
    /\ Cardinality(LinksOfType("claims")) = 2

-----------------------------------------------------------------------------
(* C21, C22, C23 *)

\* the types of the nodes of the built list that have the id
TypesOf(id) == {nodes[i].type : i \in {k \in 1..Len(nodes) : nodes[k].id = id}}

\* C21: in every built graph the source of each claims link is a node of type
\* agent and its target is a node of type claim.
C21_ClaimsLinkEnds ==
    Built =>
        \A l \in LinksOfType("claims") :
            /\ TypesOf(links[l].source) = {"agent"}
            /\ TypesOf(links[l].target) = {"claim"}

\* C22 as stated: in every built graph no link has a node of type work as its
\* source or as its target.
C22_WorkIsolated ==
    Built =>
        \A l \in 1..Len(links) :
            /\ "work" \notin TypesOf(links[l].source)
            /\ "work" \notin TypesOf(links[l].target)

\* C22 amended: the work pass pushes no link, so the link list is that of the
\* same input without its work queue, and a node of type work is the source or
\* the target of a link only when its id work-<work_id> is also the id of an entry
\* of the agents mapping, whose node the work item has overwritten; every other
\* work node is isolated.
C22_WorkAddsNoLink ==
    Built =>
        /\ links = Build(agents, [collaboration EXCEPT !.work_queue = Absent]).links
        /\ \A l \in 1..Len(links) :
              \A id \in {links[l].source, links[l].target} :
                  "work" \in TypesOf(id) =>
                      \E i \in 1..Len(AgentList) : AgentList[i].id = id

\* a build with links and with a work node that no link touches, though a claim
\* names its id as agent_id
C22_Witness ==
    /\ Built
    /\ Len(links) > 0
    /\ \E i \in 1..Len(ClaimList) : ClaimList[i].agent_id = "work-w1"
    /\ TypesOf("work-w1") = {"work"}
    /\ \A l \in 1..Len(links) : links[l].source # "work-w1" /\ links[l].target # "work-w1"

\* C23: in every built graph, an agents mapping that lists an id under two keys
\* included, the source of each collaborates link differs from its target and
\* both are nodes of type agent.
C23_CollaboratesDistinctAgents ==
    Built =>
        \A l \in LinksOfType("collaborates") :
            /\ links[l].source # links[l].target
            /\ TypesOf(links[l].source) = {"agent"}
            /\ TypesOf(links[l].target) = {"agent"}

-----------------------------------------------------------------------------
(* C24 *)

\* C24: a layout of a graph with nodes counts its passes from 0, leaves the
\* simulation only after pass 50 and never before, whatever the positions are;
\* the drawing that follows and the idle time after it change no node.
C24_FiftyPasses ==
    /\ []((pc = "idle" /\ ran = "full") => iteration = 50)
    /\ [][/\ (pc = "effect" /\ pc' = "sim") => iteration' = 0
          /\ (pc = "sim" /\ pc' = "sim") => (iteration < 50 /\ iteration' = iteration + 1)
          /\ (pc = "sim" /\ pc' # "sim") => (iteration = 50 /\ pc' = "idle" /\ nodes' = nodes)
          /\ (pc = "idle" /\ pc' = "idle") => nodes' = nodes]_vars

\* the simulation goes on although one more pass moves no node
C24_Witness ==
    /\ pc = "sim"
    /\ iteration \in 1..49
    /\ Len(nodes) >= 1
    /\ OnePass(nodes, links, canvasW, canvasH) = nodes

-----------------------------------------------------------------------------
(* C25 *)

\* slot i of n on the circle of radius min(width, height) / 3 around the midpoint
C25_Slot(i, n, width, height) ==
    LET radius == (Min2(width, height) * Scale) \div 3
        angle  == (i * 2 * Pi10k) \div n
    IN  [x |-> (width * Scale) \div 2 + RDiv(radius * Cos(angle), 10000),
         y |-> (height * Scale) \div 2 + RDiv(radius * Sin(angle), 10000)]

\* C25: before the first pass the node at list index i of a freshly built graph
\* of n nodes is on slot i of n of the circle, every node has a position and the
\* positions of different nodes differ; and the placement leaves a node that has
\* both x and y as it is.
C25_InitialPlacement ==
    /\ (pc = "sim" /\ iteration = 0) =>
          /\ \A i \in 1..Len(nodes) :
                /\ nodes[i].x = <<C25_Slot(i - 1, Len(nodes), canvasW, canvasH).x>>
                /\ nodes[i].y = <<C25_Slot(i - 1, Len(nodes), canvasW, canvasH).y>>
          /\ \A i, j \in 1..Len(nodes) :
                i # j => <<nodes[i].x, nodes[i].y>> # <<nodes[j].x, nodes[j].y>>
    /\ (pc = "sim" /\ iteration > 0) => PlaceAll(nodes, canvasW, canvasH) = nodes

\* fourteen nodes or more on their slots, before the first pass
C25_Witness ==
    /\ pc = "sim" /\ iteration = 0
    /\ Len(nodes) >= 14
    /\ nodes[1].x = <<(canvasW * Scale) \div 2 + (Min2(canvasW, canvasH) * Scale) \div 3>>

-----------------------------------------------------------------------------
(* C26 *)

\* two different nodes of the list have the same x and the same y
Coincident(i, j) ==
    /\ i # j
    /\ nodes[i].x # NoNum /\ nodes[i].y # NoNum
    /\ nodes[i].x = nodes[j].x /\ nodes[i].y = nodes[j].y

\* C26: when two nodes have the same coordinates during the simulation, the
\* distance used between them is 1 pixel and not 0, the repulsion between them and
\* the attraction along a link that joins them are finite (their components are
\* 0), and after the pass every node has a position within the surface margin.
C26_CoincidentNodes ==
    /\ [](pc = "sim" =>
            \A i, j \in 1..Len(nodes) :
                Coincident(i, j) =>
                    /\ Distance(Val0(nodes[i].x) - Val0(nodes[j].x),
                                Val0(nodes[i].y) - Val0(nodes[j].y)) = Scale
                    /\ RepelFrom(nodes[i], nodes[j]) = <<0, 0>>
                    /\ \A l \in 1..Len(links) :
                          (links[l].source = nodes[i].id /\ links[l].target = nodes[j].id)
                          => AttractAlong(nodes, nodes[i], links[l]) = <<0, 0>>)
    /\ [][(/\ pc = "sim" /\ pc' = "sim"
           /\ \E i, j \in 1..Len(nodes) : Coincident(i, j))
          => \A k \in 1..Len(nodes') :
                /\ nodes'[k].x # NoNum /\ nodes'[k].y # NoNum
                /\ 20 * Scale <= nodes'[k].x[1] /\ nodes'[k].x[1] <= Max2(20, canvasW - 20) * Scale
                /\ 20 * Scale <= nodes'[k].y[1] /\ nodes'[k].y[1] <= (canvasH - 20) * Scale]_vars

\* two nodes joined by a link have the same coordinates after a pass, and more
\* passes are to come
C26_Witness ==
    /\ pc = "sim" /\ iteration \in 1..49
    /\ \E i, j \in 1..Len(nodes) :
          /\ Coincident(i, j)
          /\ \E l \in 1..Len(links) :
                links[l].source = nodes[i].id /\ links[l].target = nodes[j].id

-----------------------------------------------------------------------------
(* C27 *)

\* C27: the node values returned by the builder have no x and no y, and the
\* layout never changes them: at every moment after the build the nodes of the
\* memo are those the builder returned, the positions being kept elsewhere.
C27_BuilderNodesUntouched ==
    Built =>
        /\ \A i \in 1..Len(Build(agents, collaboration).nodes) :
              /\ Build(agents, collaboration).nodes[i].x = NoNum
              /\ Build(agents, collaboration).nodes[i].y = NoNum
        /\ nodes = Build(agents, collaboration).nodes

-----------------------------------------------------------------------------
(* C28 *)

\* the ids that are an end of a collaborates link with the id
C28_Partners(id) ==
    {links[l].target : l \in {k \in LinksOfType("collaborates") : links[k].source = id}}
    \cup {links[l].source : l \in {k \in LinksOfType("collaborates") : links[k].target = id}}

C28_NamedFinder(agent) ==
    /\ agent.name # UNDEFINED /\ agent.name # ""
    /\ \E j \in 1..Len(FindingList) : FindingList[j].found_by = agent.name

-----------------------------------------------------------------------------
(* C29 *)

\* the node list while node k of a pass is processed: the new values of the
\* nodes before k, the old values from k on
C29_During(k) == [j \in 1..Len(nodes) |-> IF j < k THEN nodes'[j] ELSE nodes[j]]

\* C29: in every pass, the new value of the k-th node is its old value moved by
\* the force computed on the list that holds the new positions of the nodes
\* before it and the old positions of the nodes after it.
C29_SequentialUpdate ==
    [][(pc = "sim" /\ pc' = "sim") =>
          /\ Len(nodes') = Len(nodes)
          /\ \A k \in 1..Len(nodes) :
                nodes'[k] = Moved(nodes[k], NetForce(C29_During(k), links, k),
                                  canvasW, canvasH)]_vars

\* a pass is to come whose result differs from that of a pass computed from the
\* positions at its start
C29_Witness ==
    /\ pc = "sim" /\ iteration \in 1..49
    /\ Len(nodes) >= 2
    /\ OnePass(nodes, links, canvasW, canvasH)
         # [k \in 1..Len(nodes) |->
               Moved(nodes[k], NetForce(nodes, links, k), canvasW, canvasH)]

-----------------------------------------------------------------------------
(* C30 *)

\* C30: in every finished paint of a graph with nodes, on any surface width,
\* every coordinate of every node is at least 20 pixels, each node of the list
\* has exactly one circle and one label, the circles are as many as the reported
\* node total, and every link with both ends in the node list has its stroke.
C30_EveryNodeDrawn ==
    (pc = "idle" /\ ran = "full") =>
        /\ \A i \in 1..Len(nodes) :
              /\ nodes[i].x # NoNum /\ nodes[i].x[1] >= 20 * Scale
              /\ nodes[i].y # NoNum /\ nodes[i].y[1] >= 20 * Scale
              /\ Cardinality({k \in Painted("node") : paint[k].node = nodes[i].id}) = 1
              /\ Cardinality({k \in Painted("label") : paint[k].node = nodes[i].id}) = 1
        /\ Cardinality(Painted("node")) = statNodes
        /\ \A l \in (1..Len(links)) \ DanglingLinks : Cardinality(Strokes(l)) = 1

\* a finished paint of two linked nodes on a surface 30 wide
C30_Witness ==
    /\ pc = "idle" /\ ran = "full"
    /\ canvasW = 30
    /\ Len(nodes) = 2 /\ Len(links) >= 1
    /\ Cardinality(Painted("node")) = 2
    /\ Cardinality(Painted("link")) = Len(links)

=============================================================================
